---- MODULE Spec2Model ----
(***************************************************************************)
(* License report generator (license-check/generate-reports.py).           *)
(*                                                                         *)
(* The script is modelled as one sequential process: the start-up imports  *)
(* (with the pip fallback), then main(): read nuget-licenses.json, read    *)
(* rush-dependencies.csv, open the workbook writer, write up to two        *)
(* sheets, close the writer, print the completion message.  The files of   *)
(* ./license-reports and the importable libraries are the environment;     *)
(* they persist from one run of the script to the next.                    *)
(***************************************************************************)
EXTENDS Naturals, Sequences, FiniteSets, TLC

(***************************************************************************)
(* Bounds of the model.                                                    *)
(***************************************************************************)
MaxRecords == 2   \* records in nuget-licenses.json
MaxRows == 2      \* data rows in rush-dependencies.csv

(***************************************************************************)
(* Names fixed by the script.                                              *)
(***************************************************************************)
NuGetSheet == "NuGet Packages"
RushSheet == "Rush Dependencies"
InstallMsg == "Installing required packages..."
DoneMsg == "Excel report generated at ./license-reports/license-report.xlsx"
RequiredLibs == {"pandas", "openpyxl"}

(***************************************************************************)
(* JSON values.  A value is a scalar (leaf) or an object, an ordered       *)
(* sequence of fields [k, v] (Python dicts keep insertion order).          *)
(***************************************************************************)
Scalar(s) == [leaf |-> TRUE, val |-> s, kids |-> <<>>]
Object(fields) == [leaf |-> FALSE, val |-> "", kids |-> fields]
Field(k, v) == [k |-> k, v |-> v]

\* The cell pandas writes for a missing value (NaN, na_rep = "").
Na == ""

(***************************************************************************)
(* Python dicts of flattened rows: sequences of [k, v] with distinct keys. *)
(***************************************************************************)
DictKeys(d) == [i \in DOMAIN d |-> d[i].k]
DictHas(d, k) == \E i \in DOMAIN d : d[i].k = k
DictGet(d, k) == IF DictHas(d, k) THEN (d[CHOOSE i \in DOMAIN d : d[i].k = k]).v ELSE Na
\* d[k] = v: an existing key keeps its position, a new key goes last.
DictSet(d, k, v) ==
    IF DictHas(d, k)
    THEN [i \in DOMAIN d |-> IF d[i].k = k THEN Field(k, v) ELSE d[i]]
    ELSE Append(d, Field(k, v))

RECURSIVE DictUpdate(_, _)
\* {**d, **e}
DictUpdate(d, e) ==
    IF e = <<>> THEN d
    ELSE DictUpdate(DictSet(d, Head(e).k, Head(e).v), Tail(e))

SelectFields(fields, leaf) == SelectSeq(fields, LAMBDA f : f.v.leaf = leaf)

(***************************************************************************)
(* pandas.json_normalize(data) with default arguments, as called on line   *)
(* 29: every record goes through _normalise_json_ordered, which keeps the  *)
(* record's top-level scalar fields first and appends the flattened nested *)
(* fields, named by the "."-joined key path.                               *)
(***************************************************************************)
RECURSIVE normalise_json(_, _, _)
RECURSIVE normalise_items(_, _, _)

JoinKey(key_string, key) ==
    IF key_string = "" THEN key ELSE key_string \o "." \o key

normalise_items(items, key_string, normalized_dict) ==
    IF items = <<>> THEN normalized_dict
    ELSE normalise_items(Tail(items), key_string,
             normalise_json(Head(items).v, JoinKey(key_string, Head(items).k),
                            normalized_dict))

normalise_json(data, key_string, normalized_dict) ==
    IF data.leaf
    THEN DictSet(normalized_dict, key_string, data.val)
    ELSE normalise_items(data.kids, key_string, normalized_dict)

\* Mutant: flattening in plain document order, scalars not moved first.
normalise_json_document_order(fields) == normalise_json(Object(fields), "", <<>>)

normalise_json_ordered(fields) ==
    LET top_dict == [i \in DOMAIN SelectFields(fields, TRUE) |->
                        Field(SelectFields(fields, TRUE)[i].k,
                              SelectFields(fields, TRUE)[i].v.val)]
        nested_dict == normalise_json(Object(SelectFields(fields, FALSE)), "", <<>>)
    IN  DictUpdate(top_dict, nested_dict)

RECURSIVE UnionColumns(_, _)
\* DataFrame(list of dicts): the columns are the keys in order of first appearance.
UnionColumns(dicts, cols) ==
    IF dicts = <<>> THEN cols
    ELSE UnionColumns(Tail(dicts),
             cols \o SelectSeq(DictKeys(Head(dicts)),
                               LAMBDA k : \A j \in DOMAIN cols : cols[j] # k))

(***************************************************************************)
(* Data frames: named columns and rows of cells, one cell per column.      *)
(***************************************************************************)
DataFrame(columns, data) == [columns |-> columns, data |-> data]
EmptyFrame == DataFrame(<<>>, <<>>)
\* DataFrame.empty: some axis has length 0.
IsEmpty(df) == Len(df.columns) = 0 \/ Len(df.data) = 0

FrameOfDicts(dicts) ==
    LET cols == UnionColumns(dicts, <<>>)
    IN  DataFrame(cols,
                  [i \in DOMAIN dicts |-> [j \in DOMAIN cols |-> DictGet(dicts[i], cols[j])]])

json_normalize(data) ==
    FrameOfDicts([i \in DOMAIN data |-> normalise_json_ordered(data[i].kids)])

(***************************************************************************)
(* DataFrame.to_excel(writer, sheet_name = name, index = False): one sheet *)
(* with the frame's columns as header row and one row per frame row.       *)
(***************************************************************************)
Sheet(name, header, rows) == [name |-> name, header |-> header, rows |-> rows]

\* Mutant: index = False forgotten, so the row labels become a first column.
to_excel_with_index(df, name) ==
    [name |-> name,
     header |-> <<"">> \o df.columns,
     rows |-> [i \in DOMAIN df.data |-> <<ToString(i - 1)>> \o df.data[i]]]

to_excel(df, name) == Sheet(name, df.columns, df.data)

\* Mutant: the sheet is written whether or not there are records.
TruthyAlways(list) == TRUE

\* if nuget_data: a list is true when it is not empty.
Truthy(list) == Len(list) > 0


(***************************************************************************)
(* The files of ./license-reports.                                         *)
(*   kind "absent":  open() raises FileNotFoundError                       *)
(*   kind "bad":     present, but reading or parsing raises another error  *)
(*                   (JSONDecodeError, ParserError, EmptyDataError for a   *)
(*                   file with no header line, PermissionError, ...)       *)
(*   kind "array" / "table": present and well formed                       *)
(***************************************************************************)
NuGetFile(kind, records) == [kind |-> kind, records |-> records]
RushFile(kind, header, rows) == [kind |-> kind, header |-> header, rows |-> rows]
OutFile(kind, sheets) == [kind |-> kind, sheets |-> sheets]

NoFile == OutFile("absent", <<>>)
\* The output file after open(path, "wb") and before a completed save.
Truncated == OutFile("truncated", <<>>)
Workbook(sheets) == OutFile("workbook", sheets)
\* A report left by an earlier version of the inputs.
StaleReport == Workbook(<<Sheet(NuGetSheet, <<"stale">>, <<<<"old">>>>)>>)

(***************************************************************************)
(* Inputs of the model.                                                    *)
(***************************************************************************)
NuGetFields ==
    { Field("id", Scalar("A")),
      Field("lic", Scalar("MIT")),
      Field("lic", Object(<<Field("spdx", Object(<<Field("id", Scalar("MIT"))>>)),
                            Field("url", Scalar("u"))>>)) }

\* Records: one or two fields with distinct keys, in either order.
NuGetRecords ==
    { Object(<<f>>) : f \in NuGetFields }
    \cup { Object(<<p[1], p[2]>>) :
             p \in { q \in NuGetFields \X NuGetFields : q[1].k # q[2].k } }

SeqsUpTo(S, n) == UNION { [1..m -> S] : m \in 0..n }

NuGetFiles ==
    { NuGetFile("absent", <<>>), NuGetFile("bad", <<>>) }
    \cup { NuGetFile("array", a) : a \in SeqsUpTo(NuGetRecords, MaxRecords) }

RushHeader == <<"name", "version">>
\* The n-th data row of the CSV file.
RushRow(n) == <<"pkg" \o ToString(n), ToString(n) \o ".0.0">>

\* With a header line and 0 .. MaxRows data rows.
RushFiles ==
    { RushFile("absent", <<>>, <<>>), RushFile("bad", <<>>, <<>>) }
    \cup { RushFile("table", RushHeader, [i \in 1..m |-> RushRow(i)]) : m \in 0..MaxRows }

Engines == {"openpyxl", "xlsxwriter"}

(***************************************************************************)
(* State.                                                                  *)
(***************************************************************************)
VARIABLES
    libs,        \* the importable libraries among RequiredLibs
    engine,      \* the xlsx engine pandas selects in this environment
    nugetFile,   \* ./license-reports/nuget-licenses.json
    rushFile,    \* ./license-reports/rush-dependencies.csv
    outFile,     \* ./license-reports/license-report.xlsx
    pc,          \* the statement the process is at
    stdout,      \* the lines printed by this process
    exit,        \* "running", "0" or "1"
    nuget_data,  \* main's local nuget_data
    rush_data,   \* main's local rush_data
    writer,      \* the ExcelWriter: its state and the sheets of its book
    trace,       \* the steps this process has executed, in order
    failedAt,    \* the step that raised the unhandled exception, or "none"
    ioFault,     \* whether the environment failed a write of this process
    run,         \* "first" or "second" run of the script
    variant,     \* how the second run's inputs relate to the first's
    start,       \* the files as they were when this process started
    prev         \* how the previous run ended and the report it left

env == <<libs, engine, nugetFile, rushFile, outFile>>
proc == <<pc, stdout, exit, nuget_data, rush_data, writer, trace, failedAt, ioFault>>
hist == <<run, variant, start, prev>>
vars == <<env, proc, hist>>

NoWriter == [state |-> "none", sheets |-> <<>>]
Files == [libs |-> libs, nuget |-> nugetFile, rush |-> rushFile, out |-> outFile]

Init ==
    /\ libs \in {{}, RequiredLibs}
    /\ engine \in Engines
    /\ nugetFile \in NuGetFiles
    /\ rushFile \in RushFiles
    /\ outFile \in {NoFile, StaleReport}
    /\ pc = "import"
    /\ stdout = <<>>
    /\ exit = "running"
    /\ nuget_data = <<>>
    /\ rush_data = EmptyFrame
    /\ writer = NoWriter
    /\ trace = <<>>
    /\ failedAt = "none"
    /\ ioFault = FALSE
    /\ run = "first"
    /\ variant = "same"
    /\ start = Files
    /\ prev = [pc |-> "none", out |-> outFile]


(***************************************************************************)
(* Steps of the script.                                                    *)
(***************************************************************************)
Step(name) == trace' = Append(trace, name)

\* An exception nothing catches: traceback, exit status 1.
Raise(name) ==
    /\ pc' = "failed"
    /\ exit' = "1"
    /\ failedAt' = name

Goto(next) ==
    /\ pc' = next
    /\ UNCHANGED <<exit, failedAt>>

\* Lines 1-3: import pandas, openpyxl; ImportError is caught on line 4.
\* Line 11 (import json) and line 37 (the call of main) follow a success.
Import ==
    /\ pc = "import"
    /\ Step("import")
    /\ IF RequiredLibs \subseteq libs THEN Goto("read_nuget") ELSE Goto("install")
    /\ UNCHANGED <<env, stdout, nuget_data, rush_data, writer, ioFault, hist>>

\* Lines 5-8: print, then subprocess.check_call(pip install ...), which
\* raises CalledProcessError when pip exits non-zero.  pip may also exit 0
\* without making the packages importable by this interpreter.
Install ==
    /\ pc = "install"
    /\ Step("install")
    /\ stdout' = Append(stdout, InstallMsg)
    /\ \/ /\ libs' = RequiredLibs
          /\ Goto("reimport")
       \/ /\ libs' = libs
          /\ Goto("reimport")
       \/ /\ libs' = libs
          /\ Raise("install")
    /\ UNCHANGED <<engine, nugetFile, rushFile, outFile, nuget_data, rush_data,
                   writer, ioFault, hist>>

\* Mutant: a failure of the second import is swallowed.
ReimportLenient ==
    /\ pc = "reimport"
    /\ Step("reimport")
    /\ Goto("read_nuget")
    /\ UNCHANGED <<env, stdout, nuget_data, rush_data, writer, ioFault, hist>>

\* Lines 9-10: the imports again, inside the except clause: not caught.
Reimport ==
    /\ pc = "reimport"
    /\ Step("reimport")
    /\ IF RequiredLibs \subseteq libs THEN Goto("read_nuget") ELSE Raise("reimport")
    /\ UNCHANGED <<env, stdout, nuget_data, rush_data, writer, ioFault, hist>>

\* Mutant: no except clause, a missing file is fatal.
ReadNugetNoExcept ==
    /\ pc = "read_nuget"
    /\ Step("read_nuget")
    /\ CASE nugetFile.kind = "array" -> nuget_data' = nugetFile.records /\ Goto("read_rush")
         [] OTHER -> nuget_data' = nuget_data /\ Raise("read_nuget")
    /\ UNCHANGED <<env, stdout, rush_data, writer, ioFault, hist>>

\* Lines 16-20: json.load of nuget-licenses.json; only FileNotFoundError is
\* caught, and gives [].
ReadNuget ==
    /\ pc = "read_nuget"
    /\ Step("read_nuget")
    /\ CASE nugetFile.kind = "absent" -> nuget_data' = <<>> /\ Goto("read_rush")
         [] nugetFile.kind = "array" -> nuget_data' = nugetFile.records /\ Goto("read_rush")
         [] OTHER -> nuget_data' = nuget_data /\ Raise("read_nuget")
    /\ UNCHANGED <<env, stdout, rush_data, writer, ioFault, hist>>

\* Mutant: except Exception, so a malformed file counts as a missing one.
ReadRushCatchAll ==
    /\ pc = "read_rush"
    /\ Step("read_rush")
    /\ CASE rushFile.kind = "table" ->
               rush_data' = DataFrame(rushFile.header, rushFile.rows) /\ Goto("open_writer")
         [] OTHER -> rush_data' = EmptyFrame /\ Goto("open_writer")
    /\ UNCHANGED <<env, stdout, nuget_data, writer, ioFault, hist>>

\* Mutant: the output file is opened for writing before the CSV is read.
ReadRushAfterOpen ==
    /\ pc = "read_rush"
    /\ Step("read_rush")
    /\ outFile' = Truncated
    /\ CASE rushFile.kind = "absent" -> rush_data' = EmptyFrame /\ Goto("open_writer")
         [] rushFile.kind = "table" ->
               rush_data' = DataFrame(rushFile.header, rushFile.rows) /\ Goto("open_writer")
         [] OTHER -> rush_data' = rush_data /\ Raise("read_rush")
    /\ UNCHANGED <<libs, engine, nugetFile, rushFile, stdout, nuget_data, writer,
                   ioFault, hist>>

\* Lines 22-25: pd.read_csv of rush-dependencies.csv; only FileNotFoundError
\* is caught, and gives pd.DataFrame().
ReadRush ==
    /\ pc = "read_rush"
    /\ Step("read_rush")
    /\ CASE rushFile.kind = "absent" -> rush_data' = EmptyFrame /\ Goto("open_writer")
         [] rushFile.kind = "table" ->
               rush_data' = DataFrame(rushFile.header, rushFile.rows) /\ Goto("open_writer")
         [] OTHER -> rush_data' = rush_data /\ Raise("read_rush")
    /\ UNCHANGED <<env, stdout, nuget_data, writer, ioFault, hist>>

\* Mutant: mode = "a", the writer starts from the sheets of the existing file.
OpenWriterAppend ==
    /\ pc = "open_writer"
    /\ Step("open_writer")
    /\ \/ /\ writer' = [state |-> "open", sheets |-> outFile.sheets]
          /\ outFile' = outFile
          /\ ioFault' = ioFault
          /\ Goto("write_nuget")
       \/ /\ writer' = writer
          /\ outFile' = outFile
          /\ ioFault' = TRUE
          /\ Raise("open_writer")
    /\ UNCHANGED <<libs, engine, nugetFile, rushFile, stdout, nuget_data, rush_data, hist>>

\* Line 27: pd.ExcelWriter(path) opens the output file for writing, which
\* truncates it, and starts an empty book; or the open fails (permissions, a
\* missing directory) and leaves the file as it was.
OpenWriter ==
    /\ pc = "open_writer"
    /\ Step("open_writer")
    /\ \/ /\ writer' = [state |-> "open", sheets |-> <<>>]
          /\ outFile' = Truncated
          /\ ioFault' = ioFault
          /\ Goto("write_nuget")
       \/ /\ writer' = writer
          /\ outFile' = outFile
          /\ ioFault' = TRUE
          /\ Raise("open_writer")
    /\ UNCHANGED <<libs, engine, nugetFile, rushFile, stdout, nuget_data, rush_data, hist>>

\* What the engine saves for a book: openpyxl refuses a book with no sheet
\* (IndexError: At least one sheet must be visible); xlsxwriter adds a
\* default blank sheet to it.
CanSave(eng, sheets) == eng = "xlsxwriter" \/ Len(sheets) > 0
Saved(eng, sheets) ==
    IF Len(sheets) = 0 THEN <<Sheet("Sheet1", <<>>, <<>>)>> ELSE sheets

\* to_excel raises inside the with block (a cell value the engine cannot
\* convert, a sheet too large): the sheet may or may not have been started,
\* ExcelWriter.__exit__ still calls close(), which saves the book as far as
\* it got when the engine can save it, and the exception propagates.
AbortWrite(step, sheet) ==
    /\ \E book \in {writer.sheets,
                    Append(writer.sheets, Sheet(sheet.name, sheet.header, <<>>))} :
          /\ writer' = [state |-> "aborted", sheets |-> book]
          /\ outFile' = IF CanSave(engine, book) THEN Workbook(Saved(engine, book))
                        ELSE outFile
    /\ ioFault' = TRUE
    /\ Raise(step)

\* Lines 28-30.
WriteNuget ==
    /\ pc = "write_nuget"
    /\ Step("write_nuget")
    /\ IF Truthy(nuget_data)
       THEN \/ /\ writer' = [writer EXCEPT
                     !.sheets = Append(@, to_excel(json_normalize(nuget_data), NuGetSheet))]
               /\ Goto("write_rush")
               /\ UNCHANGED <<outFile, ioFault>>
            \/ AbortWrite("write_nuget", to_excel(json_normalize(nuget_data), NuGetSheet))
       ELSE /\ Goto("write_rush")
            /\ UNCHANGED <<writer, outFile, ioFault>>
    /\ UNCHANGED <<libs, engine, nugetFile, rushFile, stdout, nuget_data, rush_data, hist>>

\* Lines 31-32.
WriteRush ==
    /\ pc = "write_rush"
    /\ Step("write_rush")
    /\ IF ~IsEmpty(rush_data)
       THEN \/ /\ writer' = [writer EXCEPT !.sheets = Append(@, to_excel(rush_data, RushSheet))]
               /\ Goto("close_writer")
               /\ UNCHANGED <<outFile, ioFault>>
            \/ AbortWrite("write_rush", to_excel(rush_data, RushSheet))
       ELSE /\ Goto("close_writer")
            /\ UNCHANGED <<writer, outFile, ioFault>>
    /\ UNCHANGED <<libs, engine, nugetFile, rushFile, stdout, nuget_data, rush_data, hist>>

\* Mutant: a failed save is swallowed and the script goes on to line 34.
CloseWriterSwallow ==
    /\ pc = "close_writer"
    /\ Step("close_writer")
    /\ \/ /\ CanSave(engine, writer.sheets)
          /\ writer' = [writer EXCEPT !.state = "closed"]
          /\ outFile' = Workbook(Saved(engine, writer.sheets))
          /\ ioFault' = ioFault
       \/ /\ ~CanSave(engine, writer.sheets)
          /\ writer' = [writer EXCEPT !.state = "error"]
          /\ outFile' = outFile
          /\ ioFault' = ioFault
       \/ /\ writer' = [writer EXCEPT !.state = "error"]
          /\ outFile' = outFile
          /\ ioFault' = TRUE
    /\ Goto("print")
    /\ UNCHANGED <<libs, engine, nugetFile, rushFile, stdout, nuget_data, rush_data, hist>>

\* Line 27, leaving the with block: ExcelWriter.__exit__ calls close(), which
\* saves the book to the file; or the save fails (disk full, ...).
CloseWriter ==
    /\ pc = "close_writer"
    /\ Step("close_writer")
    /\ \/ /\ CanSave(engine, writer.sheets)
          /\ writer' = [writer EXCEPT !.state = "closed"]
          /\ outFile' = Workbook(Saved(engine, writer.sheets))
          /\ ioFault' = ioFault
          /\ Goto("print")
       \/ /\ ~CanSave(engine, writer.sheets)
          /\ writer' = [writer EXCEPT !.state = "error"]
          /\ outFile' = outFile
          /\ ioFault' = ioFault
          /\ Raise("close_writer")
       \/ /\ writer' = [writer EXCEPT !.state = "error"]
          /\ outFile' = outFile
          /\ ioFault' = TRUE
          /\ Raise("close_writer")
    /\ UNCHANGED <<libs, engine, nugetFile, rushFile, stdout, nuget_data, rush_data, hist>>

\* Line 34, then the normal end of the script.
PrintDone ==
    /\ pc = "print"
    /\ Step("print")
    /\ stdout' = Append(stdout, DoneMsg)
    /\ pc' = "done"
    /\ exit' = "0"
    /\ UNCHANGED <<env, nuget_data, rush_data, writer, failedAt, ioFault, hist>>

(***************************************************************************)
(* The script is run a second time: a new process in the environment the   *)
(* first one left.                                                         *)
(***************************************************************************)
Terminated == pc \in {"done", "failed"}

NewProcess ==
    /\ pc' = "import"
    /\ stdout' = <<>>
    /\ exit' = "running"
    /\ nuget_data' = <<>>
    /\ rush_data' = EmptyFrame
    /\ writer' = NoWriter
    /\ trace' = <<>>
    /\ failedAt' = "none"
    /\ ioFault' = FALSE
    /\ run' = "second"
    /\ prev' = [pc |-> pc, out |-> outFile]

\* With the input files unchanged.
RunAgain ==
    /\ Terminated
    /\ run = "first"
    /\ NewProcess
    /\ variant' = "same"
    /\ start' = Files
    /\ UNCHANGED env

\* After the missing input files were created empty: [] and a header line.
RunAgainWithEmptyInputs ==
    /\ Terminated
    /\ run = "first"
    /\ nugetFile.kind = "absent" \/ rushFile.kind = "absent"
    /\ NewProcess
    /\ variant' = "emptied"
    /\ nugetFile' = IF nugetFile.kind = "absent" THEN NuGetFile("array", <<>>) ELSE nugetFile
    /\ rushFile' = IF rushFile.kind = "absent" THEN RushFile("table", RushHeader, <<>>)
                   ELSE rushFile
    /\ start' = [libs |-> libs, nuget |-> nugetFile', rush |-> rushFile', out |-> outFile]
    /\ UNCHANGED <<libs, engine, outFile>>

Next ==
    \/ Import
    \/ Install
    \/ Reimport
    \/ ReadNuget
    \/ ReadRush
    \/ OpenWriter
    \/ WriteNuget
    \/ WriteRush
    \/ CloseWriter
    \/ PrintDone
    \/ RunAgain
    \/ RunAgainWithEmptyInputs

Spec == Init /\ [][Next]_vars


(***************************************************************************)
(* Vocabulary of the properties.                                           *)
(***************************************************************************)
Range(seq) == { seq[i] : i \in DOMAIN seq }
LastOf(seq) == seq[Len(seq)]
InTrace(step) == step \in Range(trace)
Printed(msg) == Cardinality({ i \in DOMAIN stdout : stdout[i] = msg })
MainEntered == InTrace("read_nuget")

NugetNonEmpty == nugetFile.kind = "array" /\ Len(nugetFile.records) > 0
RushNonEmpty == rushFile.kind = "table" /\ Len(rushFile.rows) > 0
\* Both inputs missing, or present and well formed with nothing in them.
BothEmpty ==
    /\ nugetFile.kind = "absent" \/ (nugetFile.kind = "array" /\ nugetFile.records = <<>>)
    /\ rushFile.kind = "absent" \/ (rushFile.kind = "table" /\ rushFile.rows = <<>>)

SheetNames(file) == [i \in DOMAIN file.sheets |-> file.sheets[i].name]
SheetsNamed(file, name) == { i \in DOMAIN file.sheets : file.sheets[i].name = name }
SheetNamed(file, name) == file.sheets[CHOOSE i \in DOMAIN file.sheets : file.sheets[i].name = name]

\* The leaves of a JSON value in document order, each with its key path
\* joined by dots.
DotPath(prefix, key) == IF prefix = "" THEN key ELSE prefix \o "." \o key

RECURSIVE LeafSeq(_, _)
RECURSIVE LeafSeqOfFields(_, _)
LeafSeq(value, prefix) ==
    IF value.leaf THEN << [path |-> prefix, val |-> value.val] >>
    ELSE LeafSeqOfFields(value.kids, prefix)
LeafSeqOfFields(fields, prefix) ==
    IF fields = <<>> THEN <<>>
    ELSE LeafSeq(Head(fields).v, DotPath(prefix, Head(fields).k))
         \o LeafSeqOfFields(Tail(fields), prefix)

Paths(leaves) == [i \in DOMAIN leaves |-> leaves[i].path]
LeafAt(leaves, path) ==
    IF \E i \in DOMAIN leaves : leaves[i].path = path
    THEN leaves[CHOOSE i \in DOMAIN leaves : leaves[i].path = path].val
    ELSE Na

RECURSIVE FirstAppearance(_, _)
\* The distinct elements of a sequence, in order of first appearance.
FirstAppearance(seq, acc) ==
    IF seq = <<>> THEN acc
    ELSE FirstAppearance(Tail(seq),
             IF Head(seq) \in Range(acc) THEN acc ELSE Append(acc, Head(seq)))

RECURSIVE Flat(_)
Flat(seqs) == IF seqs = <<>> THEN <<>> ELSE Head(seqs) \o Flat(Tail(seqs))

\* Column order as the claim has it: key paths by first appearance in the input.
InputOrderColumns(records) ==
    FirstAppearance(Flat([i \in DOMAIN records |-> Paths(LeafSeq(records[i], ""))]), <<>>)

\* Column order with each record's top-level scalar keys ahead of its nested ones.
ScalarsFirstPaths(record) ==
    Paths(LeafSeqOfFields(SelectSeq(record.kids, LAMBDA f : f.v.leaf), ""))
    \o Paths(LeafSeqOfFields(SelectSeq(record.kids, LAMBDA f : ~f.v.leaf), ""))
ScalarsFirstColumns(records) ==
    FirstAppearance(Flat([i \in DOMAIN records |-> ScalarsFirstPaths(records[i])]), <<>>)

\* Row r of the sheet is the record: a cell per column, holding the record's
\* value at that key path, empty where the record has no such key; and every
\* key path of the record has its column.
RowIsRecord(sheet, r, record) ==
    LET leaves == LeafSeq(record, "")
    IN  /\ Len(sheet.rows[r]) = Len(sheet.header)
        /\ \A j \in DOMAIN sheet.header : sheet.rows[r][j] = LeafAt(leaves, sheet.header[j])
        /\ Range(Paths(leaves)) \subseteq Range(sheet.header)

\* The sheet is the flat table of the records, up to the order of its columns.
FlatTableOf(sheet, records) ==
    /\ Len(sheet.rows) = Len(records)
    /\ \A r \in DOMAIN records : RowIsRecord(sheet, r, records[r])
    /\ Range(sheet.header) = UNION { Range(Paths(LeafSeq(records[r], ""))) : r \in DOMAIN records }
    /\ Cardinality(Range(sheet.header)) = Len(sheet.header)

(***************************************************************************)
(* C1: a successful run with at least one non-empty input writes exactly   *)
(* the sheets whose source is non-empty: "NuGet Packages" iff the JSON     *)
(* file holds a non-empty array, "Rush Dependencies" iff the CSV file has  *)
(* a data row, NuGet first, and nothing else.                              *)
(***************************************************************************)
C1_SheetsMatchSources ==
    (pc = "done" /\ (NugetNonEmpty \/ RushNonEmpty)) =>
        /\ outFile.kind = "workbook"
        /\ SheetNames(outFile) =
               (IF NugetNonEmpty THEN <<NuGetSheet>> ELSE <<>>)
               \o (IF RushNonEmpty THEN <<RushSheet>> ELSE <<>>)

C1_Witness ==
    /\ pc = "done"
    /\ nugetFile.kind = "array" /\ nugetFile.records = <<>>
    /\ RushNonEmpty
    /\ SheetNames(outFile) = <<RushSheet>>

(***************************************************************************)
(* C2: a run of main() with both inputs absent or empty, and no I/O fault, *)
(* completes normally: the workbook exists with zero sheets, the exit      *)
(* status is 0 and the completion message is printed.                      *)
(***************************************************************************)
C2_EmptyRunCompletes ==
    (MainEntered /\ BothEmpty /\ Terminated /\ ~ioFault) =>
        /\ pc = "done"
        /\ exit = "0"
        /\ outFile = Workbook(<<>>)
        /\ Printed(DoneMsg) = 1

(***************************************************************************)
(* C3: every sheet a successful run writes has one data row per element of *)
(* its source, in input order, and no other row or column: the NuGet sheet *)
(* one row per record of the array, the Rush sheet the CSV's header and    *)
(* data rows as they are.                                                  *)
(***************************************************************************)
C3_RowCounts ==
    pc = "done" =>
        /\ NugetNonEmpty =>
              /\ Cardinality(SheetsNamed(outFile, NuGetSheet)) = 1
              /\ LET sheet == SheetNamed(outFile, NuGetSheet)
                 IN  /\ Len(sheet.rows) = Len(nugetFile.records)
                     /\ \A r \in DOMAIN nugetFile.records :
                            RowIsRecord(sheet, r, nugetFile.records[r])
                     /\ Len(sheet.header) =
                            Cardinality(UNION { Range(Paths(LeafSeq(nugetFile.records[r], ""))) :
                                                  r \in DOMAIN nugetFile.records })
        /\ RushNonEmpty =>
              /\ Cardinality(SheetsNamed(outFile, RushSheet)) = 1
              /\ LET sheet == SheetNamed(outFile, RushSheet)
                 IN  /\ Len(sheet.rows) = Len(rushFile.rows)
                     /\ sheet.rows = rushFile.rows
                     /\ sheet.header = rushFile.header

C3_Witness ==
    /\ pc = "done"
    /\ nugetFile.kind = "array" /\ Len(nugetFile.records) = MaxRecords
    /\ nugetFile.records[1] # nugetFile.records[2]
    /\ rushFile.kind = "table" /\ Len(rushFile.rows) = MaxRows
    /\ Len(outFile.sheets) = 2


(***************************************************************************)
(* C4: a missing input file never aborts the run.  A missing JSON file     *)
(* gives an empty record list and the run goes on to read the CSV; a       *)
(* missing CSV file gives an empty data frame and the run goes on to open  *)
(* the workbook; and once the missing files are created empty, a second    *)
(* successful run leaves the same workbook as the first.                   *)
(***************************************************************************)
C4_MissingInputRecovered ==
    /\ (nugetFile.kind = "absent" /\ InTrace("read_nuget")) =>
          /\ nuget_data = <<>>
          /\ failedAt # "read_nuget"
          /\ pc = "read_rush" \/ InTrace("read_rush")
    /\ (rushFile.kind = "absent" /\ InTrace("read_rush")) =>
          /\ rush_data = EmptyFrame
          /\ failedAt # "read_rush"
          /\ pc = "open_writer" \/ InTrace("open_writer")
    /\ (run = "second" /\ variant = "emptied" /\ prev.pc = "done" /\ pc = "done") =>
          outFile = prev.out

C4_Witness ==
    /\ run = "second" /\ variant = "emptied"
    /\ prev.pc = "done" /\ pc = "done"
    /\ start.nuget = NuGetFile("array", <<>>)
    /\ RushNonEmpty
    /\ SheetNames(outFile) = <<RushSheet>>

(***************************************************************************)
(* C5: any failure other than a missing input file aborts the run.  A      *)
(* present but unreadable or malformed input, or a failed open, sheet      *)
(* write or save of the workbook, ends the process at that step with an    *)
(* unhandled exception and exit status 1: that step is the last one        *)
(* executed, no step is ever executed twice, the message is not printed,   *)
(* and after a failed read no writer is opened and the output file is      *)
(* untouched.                                                              *)
(***************************************************************************)
C5_FailuresAbort ==
    /\ (nugetFile.kind = "bad" /\ InTrace("read_nuget")) =>
          pc = "failed" /\ failedAt = "read_nuget"
    /\ (rushFile.kind = "bad" /\ InTrace("read_rush")) =>
          pc = "failed" /\ failedAt = "read_rush"
    /\ ioFault =>
          pc = "failed" /\ failedAt \in {"open_writer", "write_nuget", "write_rush", "close_writer"}
    /\ pc = "failed" =>
          /\ exit = "1"
          /\ LastOf(trace) = failedAt
          /\ Printed(DoneMsg) = 0
    /\ failedAt \in {"read_nuget", "read_rush"} =>
          writer = NoWriter /\ outFile = start.out
    /\ Cardinality(Range(trace)) = Len(trace)

C5_Witness ==
    /\ pc = "failed"
    /\ failedAt = "read_rush"
    /\ rushFile.kind = "bad"
    /\ NugetNonEmpty
    /\ nuget_data = nugetFile.records

(***************************************************************************)
(* C6: the completion message is printed at most once, only after the      *)
(* writer was closed successfully, never in a run that fails, and exactly  *)
(* once, as the last step and the last line, in a run that succeeds.       *)
(***************************************************************************)
C6_MessageAfterClose ==
    /\ Printed(DoneMsg) <= 1
    /\ Printed(DoneMsg) = 1 =>
          /\ writer.state = "closed"
          /\ pc = "done"
          /\ LastOf(trace) = "print"
          /\ LastOf(stdout) = DoneMsg
    /\ pc = "failed" => Printed(DoneMsg) = 0
    /\ pc = "done" => Printed(DoneMsg) = 1 /\ exit = "0"
    /\ writer.state # "closed" => Printed(DoneMsg) = 0

C6_Witness ==
    /\ pc = "done"
    /\ stdout = <<InstallMsg, DoneMsg>>
    /\ writer.state = "closed"

(***************************************************************************)
(* C7: when the libraries cannot be imported, the installation runs once   *)
(* and the import is retried once, before any step of main(); when the     *)
(* installation or the second import fails the process ends with an error  *)
(* and main() is never entered; when the first import succeeds nothing is  *)
(* installed.                                                              *)
(***************************************************************************)
C7_InstallOnceThenRetry ==
    /\ \A step \in {"import", "install", "reimport"} :
          Cardinality({ i \in DOMAIN trace : trace[i] = step }) <= 1
    /\ (InTrace("import") /\ RequiredLibs \subseteq start.libs) =>
          /\ ~InTrace("install") /\ ~InTrace("reimport")
          /\ Printed(InstallMsg) = 0
          /\ libs = start.libs
    /\ (InTrace("import") /\ ~(RequiredLibs \subseteq start.libs)) =>
          /\ ~MainEntered => (Len(trace) <= 3 /\ trace = SubSeq(<<"import", "install", "reimport">>, 1, Len(trace)))
          /\ MainEntered => SubSeq(trace, 1, 4) = <<"import", "install", "reimport", "read_nuget">>
    /\ MainEntered => RequiredLibs \subseteq libs
    /\ failedAt \in {"install", "reimport"} =>
          /\ pc = "failed" /\ exit = "1"
          /\ ~MainEntered
          /\ LastOf(trace) = failedAt

C7_Witness ==
    /\ start.libs = {}
    /\ pc = "done"
    /\ Printed(InstallMsg) = 1
    /\ SubSeq(trace, 1, 4) = <<"import", "install", "reimport", "read_nuget">>

(***************************************************************************)
(* C8: a second successful run with unchanged input files leaves a         *)
(* workbook identical to the one the first successful run left, and        *)
(* nothing of the report that existed before a successful run survives it. *)
(***************************************************************************)
C8_Idempotent ==
    /\ (run = "second" /\ variant = "same" /\ prev.pc = "done" /\ pc = "done") =>
          outFile = prev.out
    /\ pc = "done" =>
          \A i \in DOMAIN outFile.sheets : outFile.sheets[i] \notin Range(StaleReport.sheets)

C8_Witness ==
    /\ run = "second" /\ variant = "same"
    /\ prev.pc = "done" /\ pc = "done"
    /\ NugetNonEmpty /\ RushNonEmpty
    /\ start.out = prev.out
    /\ Len(outFile.sheets) = 2

(***************************************************************************)
(* C9 as claimed: the NuGet sheet, once written, is the flat table of the   *)
(* records (one row per record, one column per dot-joined key path, the    *)
(* union of the records' columns with empty cells where a record lacks the *)
(* key, no row-index column), its columns in order of first appearance in  *)
(* the input.                                                              *)
(***************************************************************************)
C9_ColumnsInInputOrder ==
    (InTrace("write_nuget") /\ failedAt # "write_nuget" /\ NugetNonEmpty) =>
        /\ Len(writer.sheets) >= 1
        /\ writer.sheets[1].name = NuGetSheet
        /\ FlatTableOf(writer.sheets[1], nugetFile.records)
        /\ writer.sheets[1].header = InputOrderColumns(nugetFile.records)

(***************************************************************************)
(* C9 amended: as above, but the columns are in order of first appearance  *)
(* in the input once every record's top-level scalar keys are put ahead of *)
(* its nested keys.                                                        *)
(***************************************************************************)
C9_ColumnsScalarsFirst ==
    (InTrace("write_nuget") /\ failedAt # "write_nuget" /\ NugetNonEmpty) =>
        /\ Len(writer.sheets) >= 1
        /\ writer.sheets[1].name = NuGetSheet
        /\ FlatTableOf(writer.sheets[1], nugetFile.records)
        /\ writer.sheets[1].header = ScalarsFirstColumns(nugetFile.records)

C9_Witness ==
    /\ InTrace("write_nuget") /\ failedAt # "write_nuget"
    /\ nugetFile.kind = "array" /\ Len(nugetFile.records) = 2
    /\ nugetFile.records[1] = Object(<<Field("id", Scalar("A"))>>)
    /\ ~nugetFile.records[2].kids[1].v.leaf
    /\ Len(nugetFile.records[2].kids) = 2
    /\ writer.sheets[1].header = <<"id", "lic.spdx.id", "lic.url">>
    /\ writer.sheets[1].rows[1] = <<"A", Na, Na>>

(***************************************************************************)
(* C10: main() reads the JSON file, then the CSV file, and only then opens *)
(* the workbook; it never changes an input file; a run that fails in a     *)
(* read leaves the existing report as it was; and a failed read of the     *)
(* JSON file means the CSV file is never read.                             *)
(***************************************************************************)
C10_ReadsBeforeOpen ==
    /\ InTrace("open_writer") =>
          \E i, j, k \in DOMAIN trace :
              /\ i < j /\ j < k
              /\ trace[i] = "read_nuget" /\ trace[j] = "read_rush" /\ trace[k] = "open_writer"
    /\ nugetFile = start.nuget /\ rushFile = start.rush
    /\ ~InTrace("open_writer") => (outFile = start.out /\ writer = NoWriter)
    /\ failedAt \in {"read_nuget", "read_rush"} => outFile = start.out
    /\ failedAt = "read_nuget" => ~InTrace("read_rush")

C10_Witness ==
    /\ failedAt = "read_rush"
    /\ NugetNonEmpty
    /\ start.out = StaleReport
    /\ outFile = StaleReport

====
